---- MODULE Spec2Model ----
(***************************************************************************)
(* Model of src/app.py: a price-aggregation service.  A process-wide cache *)
(* (key -> (timestamp, value)) with category TTLs, three lookups (bitcoin, *)
(* stock, FX) that walk a chain of upstream providers and end in a static  *)
(* fallback, and a portfolio aggregator composed of those lookups.         *)
(*                                                                         *)
(* Conventions.  Python strings that the code inspects or concatenates     *)
(* (symbols, currencies, cache keys) are sequences of one-character        *)
(* strings.  Numbers are fixed-point integers in hundredths (1.48 is 148). *)
(* A JSON scalar is a record [t, v]: t is its type.  Time is in seconds.   *)
(***************************************************************************)
EXTENDS Integers, Sequences, FiniteSets, TLC

VARIABLES
    now,      \* datetime.now(), in seconds
    cache,    \* the module-level dict `cache`: key -> <<cached_time, cached_data>>
    th,       \* per request thread: the call stack and the value just returned to it
    nreq,     \* number of requests accepted so far
    wlog,     \* history: per key, the arguments of the latest set_cache call
    read,     \* history: the get_cached_value call of the step just taken, if any
    last,     \* history: the lookup the step just taken completed, if any
    resp      \* history: the HTTP response the step just taken sent, if any

vars == <<now, cache, th, nreq, wlog, read, last, resp>>

------------------------------------------------------------------------------
(* Bounds *)

NThreads == 2        \* request threads served concurrently
MaxReq == 2          \* requests accepted in one behaviour of Spec
MaxPortfolios == 1   \* requests accepted in one behaviour of PortfolioSpec
MaxDays == 1         \* whole days the clock can reach
MaxHoldings == 1     \* length of a portfolio request's holdings list

Threads == 1..NThreads

------------------------------------------------------------------------------
(* JSON scalars and Python values *)

Num(n) == [t |-> "num", v |-> n]
NumStr(n) == [t |-> "numstr", v |-> n]     \* a string float() parses, e.g. "2.00"
None == [t |-> "null", v |-> 0]            \* JSON null, Python None

\* The values an upstream body can hold in its price / rate field.
JsonVals == {Num(0), Num(200), NumStr(200), None}

IsNumber(x) == "t" \in DOMAIN x /\ x.t = "num"

\* Python truthiness (`if cached_price:`): 0 and None are false; a non-empty
\* string and a non-empty dict are true.
Truthy(x) ==
    IF "t" \in DOMAIN x
    THEN CASE x.t = "num" -> x.v # 0
           [] x.t = "null" -> FALSE
           [] OTHER -> TRUE
    ELSE TRUE

\* How a piece of code inside a try block ends: with a value (ok), by falling
\* out of its if statements without one, or by raising an exception.
Ok(x) == [ok |-> TRUE, val |-> x, raised |-> FALSE]
Skipped == [ok |-> FALSE, val |-> None, raised |-> FALSE]
Raised == [ok |-> FALSE, val |-> None, raised |-> TRUE]

\* Faulty variant of Try: a try block without its except clause.
NoTry(x) == x

\* try: ... except Exception as e: logger.error(...): the exception is logged
\* and the function goes on after the try block.
Try(x) == IF x.raised THEN Skipped ELSE x

\* float(x): a number converts, a numeric string parses, anything else raises
\* ValueError or TypeError.
Float(x) ==
    IF x.t \in {"num", "numstr"} THEN Ok(Num(x.v)) ELSE Raised

\* price * fx_rate with price a float: raises TypeError unless fx_rate is a number.
Mul(price, fx_rate) ==
    IF IsNumber(fx_rate)
    THEN Ok(Num((price.v * fx_rate.v) \div 100))
    ELSE Raised

------------------------------------------------------------------------------
(* Strings *)

\* pat in s
Contains(s, pat) ==
    \E i \in 1..(Len(s) - Len(pat) + 1) : SubSeq(s, i, i + Len(pat) - 1) = pat

\* s.replace(pat, ''): every occurrence of pat, found from the left, is removed.
\* The argument is bound to v so that it is evaluated once.
RECURSIVE Replace(_, _)
Replace(s, pat) ==
    LET Rest(v) ==
            IF Len(v) < Len(pat) THEN v
            ELSE IF SubSeq(v, 1, Len(pat)) = pat
            THEN Replace(SubSeq(v, Len(pat) + 1, Len(v)), pat)
            ELSE <<Head(v)>> \o Replace(Tail(v), pat)
    IN  CHOOSE r \in {Rest(v) : v \in {s}} : TRUE

sBTC == <<"B", "T", "C">>
sSPY == <<"S", "P", "Y">>
sFxRates == <<"f", "x", "_", "r", "a", "t", "e", "s">>
sUSD == <<"U", "S", "D">>
sEUR == <<"E", "U", "R">>
sAUD == <<"A", "U", "D">>
sGBP == <<"G", "B", "P">>
sPA == <<".", "P", "A">>
sAX == <<".", "A", "X">>
sV == <<".", "V">>
sMCPA == <<"M", "C", ".", "P", "A">>
sNUGGAX == <<"N", "U", "G", "G", ".", "A", "X">>
sSOSV == <<"S", "O", "S", ".", "V">>
sFAKE == <<"F", "A", "K", "E">>
sBitcoinAud == <<"b", "i", "t", "c", "o", "i", "n", "_", "a", "u", "d">>

BitcoinKey == <<"b", "i", "t", "c", "o", "i", "n", "_", "a", "u", "d">>
\* Faulty variant of StockKey: the symbol itself is the cache key.
StockKeyBare(symbol) == symbol

StockKey(symbol) == <<"s", "t", "o", "c", "k", "_">> \o symbol
PairKey(from_currency, to_currency) == from_currency \o <<"_">> \o to_currency
FxKey(from_currency, to_currency) ==
    <<"f", "x", "_">> \o PairKey(from_currency, to_currency)

------------------------------------------------------------------------------
(* Cache *)

cache_ttl == [bitcoin |-> 60, stock |-> 300, fx |-> 3600]

Ttl(category) ==
    IF category \in DOMAIN cache_ttl THEN cache_ttl[category] ELSE 300

\* timedelta.seconds: the seconds field of a normalised timedelta, which leaves
\* out the days field.
Seconds(delta) == delta % 86400

get_cached_value(c, t, key, category) ==
    IF key \in DOMAIN c
    THEN IF Seconds(t - c[key][1]) < Ttl(category) THEN c[key][2] ELSE None
    ELSE None

\* Faulty variant of set_cache: an existing entry is updated in place, the value
\* replaced and the timestamp of the earlier write kept.
set_cache_in_place(c, t, key, value) ==
    IF key \in DOMAIN c
    THEN [c EXCEPT ![key] = <<c[key][1], value>>]
    ELSE [k \in DOMAIN c \cup {key} |-> IF k = key THEN <<t, value>> ELSE c[k]]

\* Faulty variant of set_cache: the write also drops the entries older than
\* the longest TTL.
set_cache_evicting(c, t, key, value) ==
    [k \in {j \in DOMAIN c : t - c[j][1] < 3600} \cup {key} |->
        IF k = key THEN <<t, value>> ELSE c[k]]

set_cache(c, t, key, value) ==
    [k \in DOMAIN c \cup {key} |-> IF k = key THEN <<t, value>> ELSE c[k]]

------------------------------------------------------------------------------
(* Upstream responses and the provider adapters (one try block each) *)

\* What one requests.get can bring back: an exception (timeout, connection
\* error, undecodable body), a status other than 200, a 200 body without the
\* object that holds the field, a 200 body whose object lacks the field, or a
\* 200 body with the field set to some JSON scalar.
Responses ==
    {[k |-> x, val |-> None] : x \in {"exc", "non200", "nocontainer", "nofield"}}
    \cup {[k |-> "field", val |-> x] : x \in JsonVals}

\* price = data['bitcoin']['aud']: a missing key raises KeyError; the value is
\* taken as it is.
CoinGecko(r) ==
    CASE r.k = "exc" -> Raised
      [] r.k = "non200" -> Skipped
      [] r.k \in {"nocontainer", "nofield"} -> Raised
      [] OTHER -> Ok(r.val)

\* if 'data' in data and 'BTC' in data['data']:
\*     price = float(data['data']['BTC']['price'])
CoinDesk(r) ==
    CASE r.k = "exc" -> Raised
      [] r.k \in {"non200", "nocontainer"} -> Skipped
      [] r.k = "nofield" -> Raised
      [] OTHER -> Float(r.val)

\* if 'Realtime Currency Exchange Rate' in data:
\*     float(data['Realtime Currency Exchange Rate']['5. Exchange Rate'])
AlphaVantageRate(r) ==
    CASE r.k = "exc" -> Raised
      [] r.k \in {"non200", "nocontainer"} -> Skipped
      [] r.k = "nofield" -> Raised
      [] OTHER -> Float(r.val)

\* if 'Global Quote' in data and '05. price' in data['Global Quote']:
\*     price = float(data['Global Quote']['05. price'])
GlobalQuote(r) ==
    CASE r.k = "exc" -> Raised
      [] r.k \in {"non200", "nocontainer", "nofield"} -> Skipped
      [] OTHER -> Float(r.val)

\* if 'rates' in data and to_currency in data['rates']:
\*     rate = data['rates'][to_currency]
ExchangeRateApi(r) ==
    CASE r.k = "exc" -> Raised
      [] r.k \in {"non200", "nocontainer", "nofield"} -> Skipped
      [] OTHER -> Ok(r.val)

\* History only: how a response counts against the provider contract.  "fail":
\* exception, non-200 or missing field; "bad": the field is there but is not a
\* number (for a provider whose value goes through float(), not parseable);
\* "ok": a well-formed numeric value.
Class(r, parsed) ==
    IF r.k # "field" THEN "fail"
    ELSE IF r.val.t = "num" \/ (parsed /\ r.val.t = "numstr") THEN "ok"
    ELSE "bad"

------------------------------------------------------------------------------
(* The provider chains *)

BitcoinFallback == [price |-> Num(17000000), source |-> "fallback"]

\* A lookup that an exception leaves before it has a result.
Aborted(log, outs) ==
    [raised |-> TRUE, result |-> None, log |-> log, outs |-> outs]
Done(result, log, outs) ==
    [raised |-> FALSE, result |-> result, log |-> log, outs |-> outs]

\* Faulty variant of BitcoinChain: the CoinDesk block placed before the CoinGecko block.
BitcoinChainCoinDeskFirst(r1, r2, r3) ==
    LET a == Try(CoinDesk(r2))
        b == Try(CoinGecko(r1))
        c == Try(AlphaVantageRate(r3))
        log1 == <<"CoinDesk">>
        log2 == <<"CoinDesk", "CoinGecko">>
        log3 == <<"CoinDesk", "CoinGecko", "Alpha Vantage">>
        outs1 == <<Class(r2, TRUE)>>
        outs2 == <<Class(r2, TRUE), Class(r1, FALSE)>>
        outs3 == <<Class(r2, TRUE), Class(r1, FALSE), Class(r3, TRUE)>>
    IN  IF a.ok
        THEN Done([price |-> a.val, source |-> "CoinDesk"], log1, outs1)
        ELSE IF b.ok
        THEN Done([price |-> b.val, source |-> "CoinGecko"], log2, outs2)
        ELSE IF c.ok
        THEN Done([price |-> c.val, source |-> "Alpha Vantage"], log3, outs3)
        ELSE Done(BitcoinFallback, log3, outs3)

\* get_bitcoin_price after a cache miss: the three try blocks in order, then
\* the ultimate fallback.  log lists the providers requested, outs the class of
\* each response received.
BitcoinChain(r1, r2, r3) ==
    LET a == Try(CoinGecko(r1))
        b == Try(CoinDesk(r2))
        c == Try(AlphaVantageRate(r3))
        log1 == <<"CoinGecko">>
        log2 == <<"CoinGecko", "CoinDesk">>
        log3 == <<"CoinGecko", "CoinDesk", "Alpha Vantage">>
        outs1 == <<Class(r1, FALSE)>>
        outs2 == <<Class(r1, FALSE), Class(r2, TRUE)>>
        outs3 == <<Class(r1, FALSE), Class(r2, TRUE), Class(r3, TRUE)>>
    IN  IF a.raised THEN Aborted(log1, outs1)
        ELSE IF a.ok
        THEN Done([price |-> a.val, source |-> "CoinGecko"], log1, outs1)
        ELSE IF b.raised THEN Aborted(log2, outs2)
        ELSE IF b.ok
        THEN Done([price |-> b.val, source |-> "CoinDesk"], log2, outs2)
        ELSE IF c.raised THEN Aborted(log3, outs3)
        ELSE IF c.ok
        THEN Done([price |-> c.val, source |-> "Alpha Vantage"], log3, outs3)
        ELSE Done(BitcoinFallback, log3, outs3)

default_rates ==
    [p \in {PairKey(sUSD, sAUD), PairKey(sEUR, sAUD),
            PairKey(sAUD, sUSD), PairKey(sAUD, sEUR)} |->
        IF p = PairKey(sUSD, sAUD) THEN Num(148)
        ELSE IF p = PairKey(sEUR, sAUD) THEN Num(163)
        ELSE IF p = PairKey(sAUD, sUSD) THEN Num(68)
        ELSE Num(61)]

\* default_rates.get(key, 1.5)
FxFallback(from_currency, to_currency) ==
    LET key == PairKey(from_currency, to_currency)
    IN  IF key \in DOMAIN default_rates THEN default_rates[key] ELSE Num(150)

\* get_fx_rate_internal after a cache miss.
FxChain(from_currency, to_currency, r1, r2) ==
    LET a == Try(ExchangeRateApi(r1))
        b == Try(AlphaVantageRate(r2))
        log1 == <<"exchangerate-api">>
        log2 == <<"exchangerate-api", "Alpha Vantage">>
        outs1 == <<Class(r1, FALSE)>>
        outs2 == <<Class(r1, FALSE), Class(r2, TRUE)>>
    IN  IF a.raised THEN Aborted(log1, outs1)
        ELSE IF a.ok THEN Done(a.val, log1, outs1)
        ELSE IF b.raised THEN Aborted(log2, outs2)
        ELSE IF b.ok THEN Done(b.val, log2, outs2)
        ELSE Done(FxFallback(from_currency, to_currency), log2, outs2)

fallback_prices ==
    [s \in {sSPY, sMCPA, sNUGGAX, sSOSV,
            <<"V", "B", "T", "C">>, <<"V", "T", "S">>, <<"V", "E", "U">>,
            <<"Z", "E", "T", "A">>, <<"A", "S", "M", "L">>, <<"T", "T", "D">>,
            <<"M", "S", "T", "Y">>} |->
        IF s = sSPY THEN Num(86000)
        ELSE IF s = sMCPA THEN Num(133500)
        ELSE IF s = sNUGGAX THEN Num(5083)
        ELSE IF s = sSOSV THEN Num(1200)
        ELSE IF s = <<"V", "B", "T", "C">> THEN Num(3565)
        ELSE IF s = <<"V", "T", "S">> THEN Num(47655)
        ELSE IF s = <<"V", "E", "U">> THEN Num(10302)
        ELSE IF s = <<"Z", "E", "T", "A">> THEN Num(4450)
        ELSE IF s = <<"A", "S", "M", "L">> THEN Num(157000)
        ELSE IF s = <<"T", "T", "D">> THEN Num(12400)
        ELSE Num(4145)]

\* symbol.replace('.AX', '').replace('.PA', '').replace('.V', '')
clean_symbol(symbol) == Replace(Replace(Replace(symbol, sAX), sPA), sV)

\* Faulty variant of StockFallback: the table is looked up with the cleaned symbol.
StockFallbackCleanSymbol(symbol) ==
    [symbol |-> symbol,
     price |-> IF clean_symbol(symbol) \in DOMAIN fallback_prices
               THEN fallback_prices[clean_symbol(symbol)] ELSE Num(10000),
     source |-> "fallback"]

\* fallback_prices.get(symbol, 100), wrapped in the result record
StockFallback(symbol) ==
    [symbol |-> symbol,
     price |-> IF symbol \in DOMAIN fallback_prices
               THEN fallback_prices[symbol] ELSE Num(10000),
     source |-> "fallback"]

\* The currency whose rate the stock price is multiplied by: "EUR", "USD", or
\* "none" when no conversion applies.
Conversion(symbol) ==
    IF Contains(symbol, sPA) THEN "EUR"
    ELSE IF ~Contains(symbol, sAX) /\ ~Contains(symbol, sV) THEN "USD"
    ELSE "none"

------------------------------------------------------------------------------
(* Request inputs *)

TimePoints == {0, 1, 60, 300, 3600} \cup {d * 86400 : d \in 1..MaxDays}

\* The route takes any string: table symbols with each suffix, a symbol that
\* is in no table, and one that spells the bitcoin lookup's cache key.
Symbols == {sMCPA, sNUGGAX, sSOSV, sFAKE, sBitcoinAud}

Pairs == {<<sUSD, sAUD>>, <<sGBP, sUSD>>}

\* A holding is a JSON object: a function from field names to values.  The
\* last three lack a field.
Holding(symbol, type) == [symbol |-> symbol, type |-> type]
HoldingChoices ==
    {Holding(sFAKE, "stock"), Holding(sSPY, "etf"), Holding(sBTC, "crypto"),
     Holding(sBTC, "stock"), Holding(sFxRates, "stock"),
     [symbol |-> sFAKE], [type |-> "stock"], [type |-> "crypto"]}

HoldingLists ==
    UNION {[1..n -> HoldingChoices] : n \in 0..MaxHoldings}

------------------------------------------------------------------------------
(* Threads: each serves one request at a time and keeps a call stack, the   *)
(* running function first.                                                  *)

Put(f, k, x) == [j \in DOMAIN f \cup {k} |-> IF j = k THEN x ELSE f[j]]

Empty == <<>>

Stack(t) == th[t].stack
Idle(t) == Stack(t) = <<>>
Top(t) == Head(Stack(t))
At(t, kind, pc) == ~Idle(t) /\ Top(t).kind = kind /\ Top(t).pc = pc

BitcoinFrame == [kind |-> "bitcoin", pc |-> "check"]
FxFrame(from_currency, to_currency) ==
    [kind |-> "fx", pc |-> "check",
     from_currency |-> from_currency, to_currency |-> to_currency]
StockFrame(symbol) ==
    [kind |-> "stock", pc |-> "check", symbol |-> symbol, price |-> None,
     conv |-> "none"]
\* The locals of get_portfolio_prices; started is history, the time the
\* request was accepted.
PortfolioFrame(holdings) ==
    [kind |-> "portfolio", pc |-> "begin", holdings |-> holdings, i |-> 1,
     results |-> Empty, btc_data |-> None, usd |-> None, fx_rates |-> None,
     started |-> now]

NoRead ==
    [key |-> <<>>, category |-> "none", present |-> FALSE, age |-> 0,
     entry |-> None, got |-> None, hit |-> FALSE]
NoLast ==
    [kind |-> "none", key |-> <<>>, hit |-> FALSE, log |-> <<>>, outs |-> <<>>,
     result |-> None]
NoResp == [code |-> 0, body |-> None]

\* The running function replaces its frame (a step inside the function).
Goto(t, frame) ==
    th' = [th EXCEPT ![t].stack = <<frame>> \o Tail(@), ![t].ret = None]

\* The running function moves on and calls another one.
Call(t, frame, callee) ==
    th' = [th EXCEPT ![t].stack = <<callee, frame>> \o Tail(@), ![t].ret = None]

\* The running function returns value; when it is the route handler itself its
\* HTTP response is body.
Return(t, value, body) ==
    LET rest == Tail(Stack(t))
    IN  /\ th' = [th EXCEPT ![t] = [stack |-> rest,
                                    ret |-> IF rest = <<>> THEN None ELSE value]]
        /\ resp' = IF rest = <<>> THEN [code |-> 200, body |-> body] ELSE NoResp

\* An exception no try block catches: the 500 handler answers.
Raise(t) ==
    /\ th' = [th EXCEPT ![t] = [stack |-> <<>>, ret |-> None]]
    /\ resp' = [code |-> 500, body |-> [error |-> "Internal server error"]]

Accept(t, frame, limit) ==
    /\ Idle(t)
    /\ nreq < limit
    /\ nreq' = nreq + 1
    /\ th' = [th EXCEPT ![t] = [stack |-> <<frame>>, ret |-> None]]

\* History of one get_cached_value(key, category) call made now.
ReadRecord(key, category) ==
    LET present == key \in DOMAIN cache
        got == get_cached_value(cache, now, key, category)
    IN  [key |-> key, category |-> category, present |-> present,
         age |-> IF present THEN now - cache[key][1] ELSE 0,
         entry |-> IF present THEN cache[key][2] ELSE None,
         got |-> got, hit |-> Truthy(got)]

\* set_cache(key, value) called now.
Store(key, value) ==
    /\ cache' = set_cache(cache, now, key, value)
    /\ wlog' = Put(wlog, key, <<now, value>>)

------------------------------------------------------------------------------
(* GET / and GET /api/health *)

home(t) ==
    /\ Idle(t)
    /\ nreq < MaxReq
    /\ nreq' = nreq + 1
    /\ resp' = [code |-> 200, body |-> [status |-> "ok"]]
    /\ read' = NoRead /\ last' = NoLast
    /\ UNCHANGED <<now, cache, th, wlog>>

health_check(t) ==
    /\ Idle(t)
    /\ nreq < MaxReq
    /\ nreq' = nreq + 1
    /\ resp' = [code |-> 200,
                body |-> [status |-> "healthy", timestamp |-> now,
                          cache_size |-> Cardinality(DOMAIN cache)]]
    /\ read' = NoRead /\ last' = NoLast
    /\ UNCHANGED <<now, cache, th, wlog>>

------------------------------------------------------------------------------
(* get_bitcoin_price *)

StartBitcoin(t) ==
    /\ Accept(t, BitcoinFrame, MaxReq)
    /\ read' = NoRead /\ last' = NoLast /\ resp' = NoResp
    /\ UNCHANGED <<now, cache, wlog>>

\* Faulty variant of BitcoinCheck: the cached price is read and the function
\* goes on to the providers whether or not the read hit.
BitcoinCheckNoReturn(t) ==
    /\ At(t, "bitcoin", "check")
    /\ read' = ReadRecord(BitcoinKey, "bitcoin")
    /\ Goto(t, [Top(t) EXCEPT !.pc = "fetch"])
    /\ last' = NoLast /\ resp' = NoResp
    /\ UNCHANGED <<now, cache, nreq, wlog>>

\* cached_price = get_cached_value('bitcoin_aud', 'bitcoin'); if cached_price: return
BitcoinCheck(t) ==
    /\ At(t, "bitcoin", "check")
    /\ LET r == ReadRecord(BitcoinKey, "bitcoin")
       IN  /\ read' = r
           /\ IF r.hit
              THEN /\ Return(t, r.got, r.got)
                   /\ last' = [kind |-> "bitcoin", key |-> BitcoinKey, hit |-> TRUE,
                               log |-> <<>>, outs |-> <<>>, result |-> r.got]
              ELSE /\ Goto(t, [Top(t) EXCEPT !.pc = "fetch"])
                   /\ last' = NoLast /\ resp' = NoResp
    /\ UNCHANGED <<now, cache, nreq, wlog>>

\* Faulty variant of BitcoinFetch: the ultimate fallback is returned without
\* being cached.
BitcoinFetchFallbackNotCached(t) ==
    /\ At(t, "bitcoin", "fetch")
    /\ \E r1, r2, r3 \in Responses :
         LET out == BitcoinChain(r1, r2, r3)
         IN  /\ ~out.raised
             /\ IF out.result.source = "fallback"
                THEN UNCHANGED <<cache, wlog>>
                ELSE Store(BitcoinKey, out.result)
             /\ Return(t, out.result, out.result)
             /\ last' = [kind |-> "bitcoin", key |-> BitcoinKey,
                         hit |-> FALSE, log |-> out.log, outs |-> out.outs,
                         result |-> out.result]
    /\ read' = NoRead
    /\ UNCHANGED <<now, nreq>>

\* The provider chain, set_cache('bitcoin_aud', result) and the return.
BitcoinFetch(t) ==
    /\ At(t, "bitcoin", "fetch")
    /\ \E r1, r2, r3 \in Responses :
         LET out == BitcoinChain(r1, r2, r3)
         IN  IF out.raised
             THEN /\ Raise(t)
                  /\ last' = NoLast
                  /\ UNCHANGED <<cache, wlog>>
             ELSE /\ Store(BitcoinKey, out.result)
                  /\ Return(t, out.result, out.result)
                  /\ last' = [kind |-> "bitcoin", key |-> BitcoinKey,
                              hit |-> FALSE, log |-> out.log, outs |-> out.outs,
                              result |-> out.result]
    /\ read' = NoRead
    /\ UNCHANGED <<now, nreq>>

------------------------------------------------------------------------------
(* get_fx_rate and get_fx_rate_internal *)

\* The body of the /api/fx response.
FxBody(from_currency, to_currency, rate) ==
    [from |-> from_currency, to |-> to_currency, rate |-> rate]

StartFx(t) ==
    /\ \E p \in Pairs : Accept(t, FxFrame(p[1], p[2]), MaxReq)
    /\ read' = NoRead /\ last' = NoLast /\ resp' = NoResp
    /\ UNCHANGED <<now, cache, wlog>>

\* Faulty variant of FxCheck: a hit stores the rate again, which renews the
\* timestamp of the entry.
FxCheckRefresh(t) ==
    /\ At(t, "fx", "check")
    /\ LET f == Top(t)
           key == FxKey(f.from_currency, f.to_currency)
           r == ReadRecord(key, "fx")
       IN  /\ read' = r
           /\ IF r.hit
              THEN /\ Store(key, r.got)
                   /\ Return(t, r.got, FxBody(f.from_currency, f.to_currency, r.got))
                   /\ last' = [kind |-> "fx", key |-> key, hit |-> TRUE,
                               log |-> <<>>, outs |-> <<>>, result |-> r.got]
              ELSE /\ Goto(t, [f EXCEPT !.pc = "fetch"])
                   /\ last' = NoLast /\ resp' = NoResp
                   /\ UNCHANGED <<cache, wlog>>
    /\ UNCHANGED <<now, nreq>>

FxCheck(t) ==
    /\ At(t, "fx", "check")
    /\ LET f == Top(t)
           key == FxKey(f.from_currency, f.to_currency)
           r == ReadRecord(key, "fx")
       IN  /\ read' = r
           /\ IF r.hit
              THEN /\ Return(t, r.got, FxBody(f.from_currency, f.to_currency, r.got))
                   /\ last' = [kind |-> "fx", key |-> key, hit |-> TRUE,
                               log |-> <<>>, outs |-> <<>>, result |-> r.got]
              ELSE /\ Goto(t, [f EXCEPT !.pc = "fetch"])
                   /\ last' = NoLast /\ resp' = NoResp
    /\ UNCHANGED <<now, cache, nreq, wlog>>

FxFetch(t) ==
    /\ At(t, "fx", "fetch")
    /\ \E r1, r2 \in Responses :
         LET f == Top(t)
             key == FxKey(f.from_currency, f.to_currency)
             out == FxChain(f.from_currency, f.to_currency, r1, r2)
         IN  IF out.raised
             THEN /\ Raise(t)
                  /\ last' = NoLast
                  /\ UNCHANGED <<cache, wlog>>
             ELSE /\ Store(key, out.result)
                  /\ Return(t, out.result,
                            FxBody(f.from_currency, f.to_currency, out.result))
                  /\ last' = [kind |-> "fx", key |-> key, hit |-> FALSE,
                              log |-> out.log, outs |-> out.outs,
                              result |-> out.result]
    /\ read' = NoRead
    /\ UNCHANGED <<now, nreq>>

------------------------------------------------------------------------------
(* get_stock_price *)

StartStock(t) ==
    /\ \E symbol \in Symbols : Accept(t, StockFrame(symbol), MaxReq)
    /\ read' = NoRead /\ last' = NoLast /\ resp' = NoResp
    /\ UNCHANGED <<now, cache, wlog>>

StockRecord(symbol, r, raw, conv, rate, result) ==
    [kind |-> "stock", key |-> StockKey(symbol), symbol |-> symbol, hit |-> FALSE,
     query |-> clean_symbol(symbol),
     log |-> <<"Alpha Vantage">>, outs |-> <<Class(r, TRUE)>>,
     raw |-> raw, conv |-> conv, rate |-> rate, result |-> result]

StockCheck(t) ==
    /\ At(t, "stock", "check")
    /\ LET f == Top(t)
           key == StockKey(f.symbol)
           r == ReadRecord(key, "stock")
       IN  /\ read' = r
           /\ IF r.hit
              THEN /\ Return(t, r.got, r.got)
                   /\ last' = [kind |-> "stock", key |-> key, symbol |-> f.symbol,
                               hit |-> TRUE, query |-> <<>>,
                               log |-> <<>>, outs |-> <<>>, raw |-> None, conv |-> "none", rate |-> None,
                               result |-> r.got]
              ELSE /\ Goto(t, [f EXCEPT !.pc = "fetch"])
                   /\ last' = NoLast /\ resp' = NoResp
    /\ UNCHANGED <<now, cache, nreq, wlog>>

\* The quote request.  A failure ends in the fallback table; a price that
\* needs no conversion is stored and returned; otherwise the FX lookup is
\* called and the function goes on in StockConvert.
StockFetch(t) ==
    /\ At(t, "stock", "fetch")
    /\ \E r \in Responses :
         LET f == Top(t)
             q == Try(GlobalQuote(r))
             conv == Conversion(f.symbol)
             direct == [symbol |-> f.symbol, price |-> q.val,
                        source |-> "Alpha Vantage"]
         IN  IF q.raised
             THEN /\ Raise(t)
                  /\ last' = NoLast
                  /\ UNCHANGED <<cache, wlog>>
             ELSE IF ~q.ok
             THEN /\ Store(StockKey(f.symbol), StockFallback(f.symbol))
                  /\ Return(t, StockFallback(f.symbol), StockFallback(f.symbol))
                  /\ last' = StockRecord(f.symbol, r, None, "none", None,
                                         StockFallback(f.symbol))
             ELSE IF conv = "none"
             THEN /\ Store(StockKey(f.symbol), direct)
                  /\ Return(t, direct, direct)
                  /\ last' = StockRecord(f.symbol, r, q.val, "none", None, direct)
             ELSE /\ Call(t, [f EXCEPT !.pc = "convert", !.price = q.val,
                                       !.conv = conv],
                          FxFrame(IF conv = "EUR" THEN sEUR ELSE sUSD, sAUD))
                  /\ last' = NoLast /\ resp' = NoResp
                  /\ UNCHANGED <<cache, wlog>>
    /\ read' = NoRead
    /\ UNCHANGED <<now, nreq>>

\* price = price * fx_rate, inside the try block: a TypeError ends in the
\* fallback table.
StockConvert(t) ==
    /\ At(t, "stock", "convert")
    /\ LET f == Top(t)
           fx_rate == th[t].ret
           m == Try(Mul(f.price, fx_rate))
           result == IF m.ok
                     THEN [symbol |-> f.symbol, price |-> m.val,
                           source |-> "Alpha Vantage"]
                     ELSE StockFallback(f.symbol)
       IN  IF m.raised
           THEN /\ Raise(t)
                /\ last' = NoLast
                /\ UNCHANGED <<cache, wlog>>
           ELSE /\ Store(StockKey(f.symbol), result)
                /\ Return(t, result, result)
                /\ last' = StockRecord(f.symbol, [k |-> "field", val |-> f.price],
                                       f.price, f.conv, fx_rate, result)
    /\ read' = NoRead
    /\ UNCHANGED <<now, nreq>>

------------------------------------------------------------------------------
(* get_portfolio_prices *)

StartPortfolio(t) ==
    /\ \E holdings \in HoldingLists : Accept(t, PortfolioFrame(holdings), MaxPortfolios)
    /\ read' = NoRead /\ last' = NoLast /\ resp' = NoResp
    /\ UNCHANGED <<now, cache, wlog>>

\* btc_response = get_bitcoin_price()
PortfolioBegin(t) ==
    /\ At(t, "portfolio", "begin")
    /\ Call(t, [Top(t) EXCEPT !.pc = "btc"], BitcoinFrame)
    /\ read' = NoRead /\ last' = NoLast /\ resp' = NoResp
    /\ UNCHANGED <<now, cache, nreq, wlog>>

\* results['BTC'] = btc_data['price']; get_fx_rate_internal('USD', 'AUD')
PortfolioBtc(t) ==
    /\ At(t, "portfolio", "btc")
    /\ LET f == Top(t)
           btc_data == th[t].ret
       IN  Call(t, [f EXCEPT !.pc = "usd", !.btc_data = btc_data,
                             !.results = Put(f.results, sBTC, btc_data.price)],
                FxFrame(sUSD, sAUD))
    /\ read' = NoRead /\ last' = NoLast /\ resp' = NoResp
    /\ UNCHANGED <<now, cache, nreq, wlog>>

\* get_fx_rate_internal('EUR', 'AUD')
PortfolioUsd(t) ==
    /\ At(t, "portfolio", "usd")
    /\ Call(t, [Top(t) EXCEPT !.pc = "eur", !.usd = th[t].ret], FxFrame(sEUR, sAUD))
    /\ read' = NoRead /\ last' = NoLast /\ resp' = NoResp
    /\ UNCHANGED <<now, cache, nreq, wlog>>

\* results['fx_rates'] = fx_rates
PortfolioEur(t) ==
    /\ At(t, "portfolio", "eur")
    /\ LET f == Top(t)
           fx_rates == [USD |-> f.usd, EUR |-> th[t].ret]
       IN  Goto(t, [f EXCEPT !.pc = "loop", !.fx_rates = fx_rates,
                             !.results = Put(f.results, sFxRates, fx_rates)])
    /\ read' = NoRead /\ last' = NoLast /\ resp' = NoResp
    /\ UNCHANGED <<now, cache, nreq, wlog>>

\* One turn of `for holding in holdings`, up to the call of get_stock_price;
\* after the loop, get_stock_price('SPY').  holding['type'] and
\* holding['symbol'] raise KeyError when the field is missing.
PortfolioLoop(t) ==
    /\ At(t, "portfolio", "loop")
    /\ LET f == Top(t)
           holding == f.holdings[f.i]
       IN  IF f.i > Len(f.holdings)
           THEN /\ Call(t, [f EXCEPT !.pc = "spy"], StockFrame(sSPY))
                /\ resp' = NoResp
           ELSE IF "type" \notin DOMAIN holding
           THEN Raise(t)
           ELSE IF holding.type = "crypto"
           THEN /\ Goto(t, [f EXCEPT !.i = f.i + 1])
                /\ resp' = NoResp
           ELSE IF "symbol" \notin DOMAIN holding
           THEN Raise(t)
           ELSE /\ Call(t, [f EXCEPT !.pc = "stock"], StockFrame(holding.symbol))
                /\ resp' = NoResp
    /\ read' = NoRead /\ last' = NoLast
    /\ UNCHANGED <<now, cache, nreq, wlog>>

\* results[symbol] = stock_data['price']
PortfolioStock(t) ==
    /\ At(t, "portfolio", "stock")
    /\ LET f == Top(t)
           symbol == f.holdings[f.i].symbol
           stock_data == th[t].ret
       IN  Goto(t, [f EXCEPT !.pc = "loop", !.i = f.i + 1,
                             !.results = Put(f.results, symbol, stock_data.price)])
    /\ read' = NoRead /\ last' = NoLast /\ resp' = NoResp
    /\ UNCHANGED <<now, cache, nreq, wlog>>

\* results['SPY'] = spy_data['price'] and the response
PortfolioSpy(t) ==
    /\ At(t, "portfolio", "spy")
    /\ LET f == Top(t)
           spy_data == th[t].ret
           results == Put(f.results, sSPY, spy_data.price)
       IN  Return(t, None,
                  [prices |-> results, timestamp |-> now, holdings |-> f.holdings,
                   cache_info |-> [items_cached |-> Cardinality(DOMAIN cache),
                                   bitcoin_source |-> f.btc_data.source]])
    /\ read' = NoRead /\ last' = NoLast
    /\ UNCHANGED <<now, cache, nreq, wlog>>

------------------------------------------------------------------------------
(* Time and the specification *)

\* The clock moves on.  Time is counted from the first request, and the clock
\* is followed as long as a request can still read it: limit is the number of
\* requests the behaviour accepts.  A request in progress lasts no longer than
\* its network timeouts allow, so the clock jumps far only between requests.
Tick(limit) ==
    /\ nreq > 0
    /\ \E t \in TimePoints :
         /\ t > now
         /\ IF \A u \in Threads : Idle(u) THEN nreq < limit ELSE t - now <= 10
         /\ now' = t
    /\ read' = NoRead /\ last' = NoLast /\ resp' = NoResp
    /\ UNCHANGED <<cache, th, nreq, wlog>>

Init ==
    /\ now = 0
    /\ cache = Empty
    /\ th = [t \in Threads |-> [stack |-> <<>>, ret |-> None]]
    /\ nreq = 0
    /\ wlog = Empty
    /\ read = NoRead
    /\ last = NoLast
    /\ resp = NoResp

\* The steps of the three lookups, whoever called them.
LookupStep(t) ==
    \/ BitcoinCheck(t)
    \/ BitcoinFetch(t)
    \/ FxCheck(t)
    \/ FxFetch(t)
    \/ StockCheck(t)
    \/ StockFetch(t)
    \/ StockConvert(t)

\* Concurrent requests to /, /api/health, /api/bitcoin, /api/stock/<symbol>
\* and /api/fx/<from>/<to>.
Next ==
    \/ Tick(MaxReq)
    \/ \E t \in Threads :
         \/ home(t)
         \/ health_check(t)
         \/ StartBitcoin(t)
         \/ StartFx(t)
         \/ StartStock(t)
         \/ LookupStep(t)

Spec == Init /\ [][Next]_vars

\* Requests to /api/portfolio, one at a time.
PortfolioNext ==
    \/ Tick(MaxReq)
    \/ StartPortfolio(1)
    \/ PortfolioBegin(1)
    \/ PortfolioBtc(1)
    \/ PortfolioUsd(1)
    \/ PortfolioEur(1)
    \/ PortfolioLoop(1)
    \/ PortfolioStock(1)
    \/ PortfolioSpy(1)
    \/ LookupStep(1)

PortfolioSpec == Init /\ [][PortfolioNext]_vars

\* Requests to /, /api/health and the three lookups, one at a time: a request
\* is accepted only when the one before has been answered.
SeqNext ==
    \/ Tick(MaxReq)
    \/ home(1)
    \/ health_check(1)
    \/ StartBitcoin(1)
    \/ StartFx(1)
    \/ StartStock(1)
    \/ LookupStep(1)

SeqSpec == Init /\ [][SeqNext]_vars

------------------------------------------------------------------------------
(* Claims *)

\* C1 (as claimed): a value set under a key is returned unchanged by a read of
\* that key made less than ttl(category) seconds later (60 for bitcoin, 300
\* for stock, 3600 for fx), and the read returns None at any elapsed time of
\* ttl(category) or more, a day or more included.
C1_CacheTTL ==
    read.present =>
        LET ttl == CASE read.category = "bitcoin" -> 60
                     [] read.category = "stock" -> 300
                     [] read.category = "fx" -> 3600
        IN  IF read.age < ttl
            THEN read.got = read.entry
            ELSE read.got = None

\* C2: a bitcoin or FX lookup that misses the cache requests its providers in
\* the order of its chain, each at most once, the next one only after every
\* earlier one failed and none after a success; the source of a bitcoin result
\* is the provider that yielded it.
C2_ProviderPriority ==
    (last.kind \in {"bitcoin", "fx"} /\ ~last.hit) =>
        LET chain == IF last.kind = "bitcoin"
                     THEN <<"CoinGecko", "CoinDesk", "Alpha Vantage">>
                     ELSE <<"exchangerate-api", "Alpha Vantage">>
            n == Len(last.log)
        IN  /\ n \in 1..Len(chain)
            /\ last.log = SubSeq(chain, 1, n)
            /\ Len(last.outs) = n
            /\ \A i \in 1..(n - 1) : last.outs[i] # "ok"
            /\ last.kind = "bitcoin" =>
                 /\ last.outs[n] = "ok" => last.result.source = chain[n]
                 /\ last.result.source \in {chain[n], "fallback"}
                 /\ last.result.source = "fallback" =>
                      n = Len(chain) /\ last.outs[n] # "ok"

\* C2 witness: a bitcoin lookup whose first two providers failed and whose
\* third one yielded the price.
C2_Witness ==
    /\ last.kind = "bitcoin"
    /\ last.log = <<"CoinGecko", "CoinDesk", "Alpha Vantage">>
    /\ last.outs = <<"fail", "fail", "ok">>
    /\ last.result.source = "Alpha Vantage"

\* C3: when every provider of a lookup's chain fails (exception, non-200
\* status or missing field), the bitcoin lookup returns price 170000 with
\* source "fallback", the stock lookup returns source "fallback" with the
\* table price of the raw symbol (100 when the symbol is not in the table) and
\* no conversion, and the FX lookup returns the table rate of the pair (1.5
\* when the pair is not in the table).
C3_FallbackDeterminism ==
    /\ (last.kind = "bitcoin" /\ ~last.hit /\ last.outs = <<"fail", "fail", "fail">>)
         => last.result = [price |-> Num(17000000), source |-> "fallback"]
    /\ (last.kind = "stock" /\ ~last.hit /\ last.outs = <<"fail">>) =>
         LET s == last.symbol
             expected ==
                 CASE s = <<"V", "B", "T", "C">> -> 3565
                   [] s = <<"V", "T", "S">> -> 47655
                   [] s = <<"V", "E", "U">> -> 10302
                   [] s = <<"Z", "E", "T", "A">> -> 4450
                   [] s = <<"N", "U", "G", "G", ".", "A", "X">> -> 5083
                   [] s = <<"A", "S", "M", "L">> -> 157000
                   [] s = <<"M", "C", ".", "P", "A">> -> 133500
                   [] s = <<"T", "T", "D">> -> 12400
                   [] s = <<"M", "S", "T", "Y">> -> 4145
                   [] s = <<"S", "O", "S", ".", "V">> -> 1200
                   [] s = <<"S", "P", "Y">> -> 86000
                   [] OTHER -> 10000
         IN  last.result =
                 [symbol |-> s, price |-> Num(expected), source |-> "fallback"]
    /\ (last.kind = "fx" /\ ~last.hit /\ last.outs = <<"fail", "fail">>) =>
         LET k == last.key
             expected ==
                 CASE k = <<"f", "x", "_", "U", "S", "D", "_", "A", "U", "D">> -> 148
                   [] k = <<"f", "x", "_", "E", "U", "R", "_", "A", "U", "D">> -> 163
                   [] k = <<"f", "x", "_", "A", "U", "D", "_", "U", "S", "D">> -> 68
                   [] k = <<"f", "x", "_", "A", "U", "D", "_", "E", "U", "R">> -> 61
                   [] OTHER -> 150
         IN  last.result = Num(expected)
    /\ FxFallback(sAUD, sUSD) = Num(68)
    /\ FxFallback(sAUD, sEUR) = Num(61)

\* C3 witness: a stock lookup of the European symbol MC.PA whose provider
\* failed: the table price 1335.00, unconverted.
C3_Witness ==
    /\ last.kind = "stock"
    /\ ~last.hit
    /\ last.symbol = sMCPA
    /\ last.outs = <<"fail">>
    /\ last.result.price = Num(133500)
    /\ last.result.source = "fallback"

\* C4 (as claimed): a lookup whose key holds an entry written less than
\* ttl(category) seconds ago, be it a price record or a numeric rate (0
\* included), requests no provider and returns the cached value.
C4_IdempotentWithinTTL ==
    LET ttl == CASE read.category = "bitcoin" -> 60
                 [] read.category = "stock" -> 300
                 [] OTHER -> 3600
    IN  (/\ read.present
         /\ read.age < ttl
         /\ IsNumber(read.entry) \/ "source" \in DOMAIN read.entry)
        => /\ read.hit
           /\ last.hit
           /\ last.key = read.key
           /\ last.log = <<>>
           /\ last.result = read.entry

\* C5 (as claimed): a stock lookup that misses the cache and gets a
\* well-formed raw price p returns p * rate(EUR->AUD) when the symbol holds
\* ".PA", p unchanged when it holds ".AX" or ".V" and not ".PA", and
\* p * rate(USD->AUD) otherwise, rate being the value the FX lookup returned to
\* it.
C5_CurrencyNormalization ==
    (last.kind = "stock" /\ ~last.hit /\ last.outs = <<"ok">>) =>
        LET p == last.raw
            price == last.result.price
            product == Num((p.v * last.rate.v) \div 100)
        IN  IF Contains(last.symbol, <<".", "P", "A">>)
            THEN last.conv = "EUR" /\ IsNumber(last.rate) /\ price = product
            ELSE IF \/ Contains(last.symbol, <<".", "A", "X">>)
                    \/ Contains(last.symbol, <<".", "V">>)
            THEN last.conv = "none" /\ price = p
            ELSE last.conv = "USD" /\ IsNumber(last.rate) /\ price = product

\* C6 (as claimed): for every holdings list of {symbol, type} records, the
\* prices map of the portfolio response holds BTC, SPY, fx_rates as a map with
\* USD and EUR, and the symbol of every holding that is not of type "crypto",
\* and no other key.
C6_PortfolioCompleteness ==
    (/\ resp.code = 200
     /\ "prices" \in DOMAIN resp.body
     /\ \A i \in DOMAIN resp.body.holdings :
            DOMAIN resp.body.holdings[i] = {"symbol", "type"})
    => LET prices == resp.body.prices
           holdings == resp.body.holdings
           stocks == {holdings[i].symbol :
                          i \in {j \in DOMAIN holdings : holdings[j].type # "crypto"}}
       IN  /\ sBTC \in DOMAIN prices
           /\ sSPY \in DOMAIN prices
           /\ sFxRates \in DOMAIN prices
           /\ {"USD", "EUR"} \subseteq DOMAIN prices[sFxRates]
           /\ stocks \subseteq DOMAIN prices
           /\ DOMAIN prices \subseteq {sBTC, sSPY, sFxRates} \cup stocks

\* C7: a lookup in progress can always take its next step, and no step of a
\* lookup ends in an exception that reaches the caller (the 500 handler),
\* whatever the cache holds and whatever the providers answer.
C7_AlwaysResponds ==
    /\ resp.code # 500
    /\ \A t \in Threads : ~Idle(t) => ENABLED LookupStep(t)

\* C7 witness: a stock lookup whose provider answered 200 with a price that
\* float() rejects: the exception is caught and the fallback price returned.
C7_Witness ==
    /\ last.kind = "stock"
    /\ last.outs = <<"bad">>
    /\ last.result.source = "fallback"
    /\ resp.code = 200

\* C8 (as claimed): every portfolio request whose holdings are a list of JSON
\* objects is answered with the combined result map, never with an error.
C8_PortfolioNeverFails ==
    resp.code # 0 => (resp.code = 200 /\ "prices" \in DOMAIN resp.body)

\* C9: every cache entry is the (timestamp, value) pair of the latest
\* set_cache call for its key, whole and unchanged, and the pair a reader gets
\* is that pair, in every interleaving of concurrent lookups.
C9_PerKeyAtomicity ==
    /\ DOMAIN cache = DOMAIN wlog
    /\ \A k \in DOMAIN cache : cache[k] = wlog[k]
    /\ read.present => <<now - read.age, read.entry>> = wlog[read.key]

\* C9 witness: a lookup reads the USD->AUD entry while another request is in
\* progress on the other thread.
C9_Witness ==
    /\ read.present
    /\ read.key = FxKey(sUSD, sAUD)
    /\ \A t \in Threads : ~Idle(t)

\* C10 (as claimed): every bitcoin result returned or stored under
\* "bitcoin_aud" has a numeric price, and a 200 response whose price field is
\* not a number makes the lookup go on to the next provider.
C10_BitcoinPriceNumeric ==
    /\ last.kind = "bitcoin" => IsNumber(last.result.price)
    /\ BitcoinKey \in DOMAIN cache => IsNumber(cache[BitcoinKey][2].price)
    /\ (last.kind = "bitcoin" /\ ~last.hit) =>
         \A i \in 1..Len(last.outs) :
             last.outs[i] = "bad" =>
                 i < Len(last.log) \/ last.result.source = "fallback"

\* C11 (as claimed): every value the FX lookup returns or stores under an
\* "fx_" key is a number, and a 200 response of the primary provider whose
\* rates entry for the target currency is not a number makes the lookup go on
\* to the backup provider.
C11_FxRateNumeric ==
    /\ last.kind = "fx" => IsNumber(last.result)
    /\ \A k \in DOMAIN cache :
           (Len(k) >= 3 /\ SubSeq(k, 1, 3) = <<"f", "x", "_">>)
               => IsNumber(cache[k][2])
    /\ (last.kind = "fx" /\ ~last.hit /\ last.outs[1] = "bad")
           => last.log = <<"exchangerate-api", "Alpha Vantage">>

\* C12: bitcoin lookups read and write only "bitcoin_aud" and with the 60 s
\* category, stock lookups only keys beginning "stock_" and with the 300 s
\* category, FX lookups only keys beginning "fx_" and with the 3600 s category,
\* whatever the symbol or the pair; so every key of the cache belongs to one
\* kind of lookup, and its entry is a value of that kind.
C12_KeyCategory ==
    LET Cat(k) ==
            IF k = <<"b", "i", "t", "c", "o", "i", "n", "_", "a", "u", "d">>
            THEN "bitcoin"
            ELSE IF Len(k) >= 6 /\ SubSeq(k, 1, 6) = <<"s", "t", "o", "c", "k", "_">>
            THEN "stock"
            ELSE IF Len(k) >= 3 /\ SubSeq(k, 1, 3) = <<"f", "x", "_">>
            THEN "fx"
            ELSE "none"
        Kind(value) ==
            IF "symbol" \in DOMAIN value THEN "stock"
            ELSE IF "source" \in DOMAIN value THEN "bitcoin"
            ELSE "fx"
    IN  /\ read.category # "none" =>
              /\ read.category = Cat(read.key)
              /\ cache_ttl[read.category] =
                     (CASE Cat(read.key) = "bitcoin" -> 60
                        [] Cat(read.key) = "stock" -> 300
                        [] Cat(read.key) = "fx" -> 3600)
        /\ last.kind # "none" => last.kind = Cat(last.key)
        /\ \A k \in DOMAIN cache :
               Cat(k) # "none" /\ Kind(cache[k][2]) = Cat(k)

\* C12 witness: a stock lookup for the symbol "bitcoin_aud" reads its own key
\* under the stock category while the cache holds the bitcoin lookup's entry.
C12_Witness ==
    /\ read.key = <<"s", "t", "o", "c", "k", "_">>
                      \o <<"b", "i", "t", "c", "o", "i", "n", "_", "a", "u", "d">>
    /\ read.category = "stock"
    /\ <<"b", "i", "t", "c", "o", "i", "n", "_", "a", "u", "d">> \in DOMAIN cache

\* C13: with requests served one at a time, a lookup that misses the cache
\* ends with the entry of its key being the value it returns, stamped with the
\* time of the write, fallback values included; and an entry holding a
\* fallback value is served from the cache, with no provider requested, as
\* long as its age is below the TTL of its category.
C13_CachePopulation ==
    LET ttl == CASE read.category = "bitcoin" -> 60
                 [] read.category = "stock" -> 300
                 [] OTHER -> 3600
        FallbackValue(x) ==
            IF "source" \in DOMAIN x
            THEN x.source = "fallback"
            ELSE x \in {Num(148), Num(163), Num(68), Num(61), Num(150)}
    IN  /\ (last.kind # "none" /\ ~last.hit) =>
              /\ last.key \in DOMAIN cache
              /\ cache[last.key] = <<now, last.result>>
        /\ (last.kind # "none" /\ ~last.hit
               /\ \A i \in DOMAIN last.outs : last.outs[i] = "fail")
              => FallbackValue(cache[last.key][2])
        /\ (read.present /\ read.age < ttl /\ FallbackValue(read.entry)) =>
              /\ read.hit
              /\ last.hit
              /\ last.key = read.key
              /\ last.log = <<>>
              /\ last.result = read.entry

\* C13 witness: a bitcoin request finds, one second after it was written, the
\* fallback price that an earlier request cached after a total provider failure.
C13_Witness ==
    /\ read.present
    /\ read.category = "bitcoin"
    /\ read.age = 1
    /\ read.entry = [price |-> Num(17000000), source |-> "fallback"]
    /\ last.hit
    /\ last.result.source = "fallback"

\* C14 (as claimed): a portfolio call resolves bitcoin, USD->AUD, EUR->AUD,
\* each holding that is not of type "crypto" in list order, then SPY, a stock
\* lookup resolving at most the USD->AUD or EUR->AUD rate inside it; and
\* whenever a lookup of the call finds an entry that was written during the
\* same call, it is a cache hit and no provider is requested.
C14_PortfolioBatching ==
    LET s == Stack(1)
        call == s[Len(s)]
        f == Top(1)
        bitcoin_aud == <<"b", "i", "t", "c", "o", "i", "n", "_", "a", "u", "d">>
        fx_USD_AUD == <<"f", "x", "_", "U", "S", "D", "_", "A", "U", "D">>
        fx_EUR_AUD == <<"f", "x", "_", "E", "U", "R", "_", "A", "U", "D">>
        stock_(symbol) == <<"s", "t", "o", "c", "k", "_">> \o symbol
        done(n) == {f.holdings[j].symbol :
                       j \in {m \in 1..n : f.holdings[m].type # "crypto"}}
    IN  (s # <<>> /\ call.kind = "portfolio") =>
          /\ (last.kind # "none" /\ f.kind = "portfolio") =>
                CASE f.pc = "btc" ->
                       last.key = bitcoin_aud /\ DOMAIN f.results = {}
                  [] f.pc = "usd" ->
                       last.key = fx_USD_AUD /\ DOMAIN f.results = {sBTC}
                  [] f.pc = "eur" ->
                       last.key = fx_EUR_AUD /\ DOMAIN f.results = {sBTC}
                  [] f.pc = "stock" ->
                       /\ f.holdings[f.i].type # "crypto"
                       /\ last.key = stock_(f.holdings[f.i].symbol)
                       /\ DOMAIN f.results = {sBTC, sFxRates} \cup done(f.i - 1)
                  [] f.pc = "spy" ->
                       /\ f.i = Len(f.holdings) + 1
                       /\ last.key = stock_(<<"S", "P", "Y">>)
                       /\ DOMAIN f.results = {sBTC, sFxRates} \cup done(f.i - 1)
          /\ (last.kind # "none" /\ f.kind = "stock") =>
                last.key \in {fx_USD_AUD, fx_EUR_AUD}
          /\ (read.present /\ now - read.age >= call.started) =>
                read.hit /\ last.hit /\ last.log = <<>>

\* C15: no step removes a key from the cache; an entry changes only by a
\* set_cache for its key, which replaces it with the value and the time of
\* that call, however old the entry is; and the cache size that the health
\* endpoint and the portfolio diagnostic block report is the number of keys
\* ever written, expired ones included.
C15_NoEviction ==
    [][/\ DOMAIN cache \subseteq DOMAIN cache'
       /\ \A k \in DOMAIN cache :
              cache'[k] # cache[k] =>
                  /\ k \in DOMAIN wlog'
                  /\ cache'[k] = wlog'[k]
                  /\ cache'[k][1] = now'
       /\ "cache_size" \in DOMAIN resp'.body =>
              resp'.body.cache_size = Cardinality(DOMAIN wlog')
       /\ "cache_info" \in DOMAIN resp'.body =>
              resp'.body.cache_info.items_cached = Cardinality(DOMAIN wlog')
      ]_vars

\* C15 witness: the health endpoint reports a cache of one entry an hour after
\* that entry was written, when every TTL has run out.
C15_Witness ==
    /\ "cache_size" \in DOMAIN resp.body
    /\ resp.body.cache_size = 1
    /\ \E k \in DOMAIN cache : now - cache[k][1] = 3600

\* C16: a step of a bitcoin lookup changes no cache entry but "bitcoin_aud", a
\* step of an FX lookup none but "fx_<from>_<to>", a step of a stock lookup
\* none but "stock_<symbol>"; the FX lookup a stock lookup calls is the one
\* lookup of its conversion currency to AUD, USD or EUR; and a step that hits
\* the cache, the home endpoint, the health endpoint and the passing of time
\* change no entry, a hit leaving the timestamp as it was.
C16_CacheWriteFrame ==
    [][LET changed == {k \in DOMAIN cache' :
                          k \notin DOMAIN cache \/ cache'[k] # cache[k]}
           actors == {t \in Threads : th'[t] # th[t]}
           fx_(a, b) == <<"f", "x", "_">> \o a \o <<"_">> \o b
       IN  /\ DOMAIN cache \subseteq DOMAIN cache'
           /\ changed # {} =>
                \E t \in Threads :
                    LET stack == th[t].stack
                        g == stack[1]
                    IN  /\ actors = {t}
                        /\ stack # <<>>
                        /\ CASE g.kind = "bitcoin" ->
                                  changed = {<<"b", "i", "t", "c", "o", "i", "n",
                                               "_", "a", "u", "d">>}
                             [] g.kind = "fx" ->
                                  changed = {fx_(g.from_currency, g.to_currency)}
                             [] g.kind = "stock" ->
                                  changed = {<<"s", "t", "o", "c", "k", "_">> \o g.symbol}
                             [] OTHER -> FALSE
                        /\ (Len(stack) >= 2 /\ stack[2].kind = "stock") =>
                              /\ g.kind = "fx"
                              /\ stack[2].pc = "convert"
                              /\ \/ /\ stack[2].conv = "USD"
                                    /\ changed = {fx_(<<"U", "S", "D">>, <<"A", "U", "D">>)}
                                 \/ /\ stack[2].conv = "EUR"
                                    /\ changed = {fx_(<<"E", "U", "R">>, <<"A", "U", "D">>)}
           /\ last'.hit => cache' = cache
           /\ "status" \in DOMAIN resp'.body => cache' = cache
           /\ now' # now => cache' = cache
      ]_vars

\* C16 witness: the FX lookup called by a stock lookup has just written its
\* rate while the cache holds the entry of an earlier bitcoin lookup.
C16_Witness ==
    /\ last.kind = "fx"
    /\ ~last.hit
    /\ \E t \in Threads : At(t, "stock", "convert")
    /\ BitcoinKey \in DOMAIN cache
    /\ last.key \in DOMAIN cache

\* C17 (as claimed): set_cache is never executed for a key that holds an
\* unexpired entry, that is one written less than ttl(category) seconds
\* before; in particular a bitcoin price from a provider is never replaced,
\* while unexpired, by the fallback price or by the price of a provider lower
\* in the chain.
C17_NoOverwriteOfFresh ==
    [][(last'.kind # "none" /\ ~last'.hit /\ last'.key \in DOMAIN cache) =>
          LET old == cache[last'.key]
              ttl == CASE last'.kind = "bitcoin" -> 60
                       [] last'.kind = "stock" -> 300
                       [] OTHER -> 3600
              rank(source) == CASE source = "CoinGecko" -> 1
                                [] source = "CoinDesk" -> 2
                                [] source = "Alpha Vantage" -> 3
                                [] OTHER -> 4
          IN  /\ now - old[1] >= ttl
              /\ (last'.kind = "bitcoin" /\ now - old[1] < ttl) =>
                     rank(last'.result.source) <= rank(old[2].source)
      ]_vars

\* C17 (amended): a lookup executes set_cache for its key only after its own
\* cache check of that key missed: a check that hits ends the lookup and
\* writes nothing, a lookup passes to its provider requests only by a check of
\* its own key that missed, and only a lookup past that point writes.  The
\* check is not repeated before the write, so a concurrent lookup may have
\* stored an unexpired entry in between, which the write replaces.
C17_WriteOnlyAfterOwnMiss ==
    [][\A t \in Threads :
          th'[t] # th[t] =>
              LET before == th[t].stack
                  after == th'[t].stack
                  Key(g) == CASE g.kind = "bitcoin" -> BitcoinKey
                              [] g.kind = "fx" -> FxKey(g.from_currency, g.to_currency)
                              [] g.kind = "stock" -> StockKey(g.symbol)
                              [] OTHER -> <<>>
              IN  /\ read'.hit =>
                        /\ cache' = cache
                        /\ last'.hit
                        /\ last'.key = read'.key
                        /\ after = Tail(before)
                  /\ (after # <<>> /\ after[1].pc = "fetch"
                        /\ (before = <<>> \/ before[1].pc # "fetch")) =>
                        /\ read'.key = Key(after[1])
                        /\ ~read'.hit
                        /\ before # <<>>
                        /\ before[1].pc = "check"
                        /\ Key(before[1]) = Key(after[1])
                  /\ (last'.kind # "none" /\ ~last'.hit) =>
                        /\ before # <<>>
                        /\ before[1].pc \in {"fetch", "convert"}
                        /\ Key(before[1]) = last'.key
                  /\ (after # <<>> /\ after[1].pc = "convert"
                        /\ (before = <<>> \/ before[1].pc # "convert")) =>
                        \/ before # <<>> /\ before[1].pc = "fetch"
                              /\ Key(before[1]) = Key(after[1])
                        \/ Len(before) >= 2 /\ before[2] = after[1]
      ]_vars

\* C17 witness: a bitcoin lookup that missed is about to request the providers
\* and write, while the key holds the unexpired price another request has
\* just stored from a provider.
C17_Witness ==
    /\ \E t \in Threads : At(t, "bitcoin", "fetch")
    /\ BitcoinKey \in DOMAIN cache
    /\ now - cache[BitcoinKey][1] < 60
    /\ cache[BitcoinKey][2].source = "CoinGecko"
    /\ last.kind = "bitcoin"
    /\ ~last.hit

\* C18 (as claimed): in the portfolio response prices["BTC"] is the price the
\* bitcoin lookup of step 1 returned, whose source is reported as
\* bitcoin_source, prices["fx_rates"] is the map of the two rates of step 2,
\* and prices["SPY"] is the price the benchmark lookup returned, whatever the
\* holdings are.
C18_PortfolioFixedKeys ==
    [][(resp'.code = 200 /\ "prices" \in DOMAIN resp'.body) =>
          LET f == Top(1)
              spy_data == th[1].ret
              prices == resp'.body.prices
          IN  /\ prices[<<"B", "T", "C">>] = f.btc_data.price
              /\ resp'.body.cache_info.bitcoin_source = f.btc_data.source
              /\ prices[<<"f", "x", "_", "r", "a", "t", "e", "s">>] = f.fx_rates
              /\ prices[<<"S", "P", "Y">>] = spy_data.price
      ]_vars

\* C19 (as claimed): a stock lookup that misses the cache returns source
\* "fallback" exactly when the quote request failed (exception, non-200
\* status, missing field, or a price that is not a number), and source
\* "Alpha Vantage" with every well-formed quote, whatever the FX lookup of the
\* conversion returned.
C19_StockSourceLabel ==
    (last.kind = "stock" /\ ~last.hit) =>
        /\ last.result.source = "fallback" <=> last.outs # <<"ok">>
        /\ last.outs = <<"ok">> => last.result.source = "Alpha Vantage"

====
